---- MODULE Spec2Model ----
(***************************************************************************)
(* Model of src/pocket2notion.py: PocketToNotionImporter.                   *)
(*                                                                         *)
(* Text values are records [k |-> "str", id, len]: id names the text and   *)
(* len is its length in characters, so that slicing (s[:100]) and the      *)
(* empty string are visible.  A CSV cell as pandas hands it to the code is *)
(* NaN (empty cell), a text, or a number.  A column that the file does not *)
(* have is modelled by the file's column set (row.get returns its default).*)
(***************************************************************************)
EXTENDS Integers, Sequences, FiniteSets, TLC

(* ---------------------------------------------------------------------- *)
(* Bounds of the model                                                     *)
(* ---------------------------------------------------------------------- *)
\* rows in one file
MaxRows == 2
\* CSV files in one bundle
MaxFiles == 2
\* rows given to one importer over all its runs
MaxArticles == 3
\* calls of import_articles on one importer
MaxRuns == 2

(* ---------------------------------------------------------------------- *)
(* Values                                                                  *)
(* ---------------------------------------------------------------------- *)
None == [k |-> "none"]
NaN == [k |-> "nan"]
Str(id, len) == [k |-> "str", id |-> id, len |-> len]
EmptyStr == Str("", 0)
Num(v) == [k |-> "num", v |-> v]
Min(a, b) == IF a < b THEN a ELSE b

\* pd.isna(x): true of NaN and of None
IsNa(x) == x.k = "nan" \/ x.k = "none"

\* str(x) for the cell values the parser passes to it
ToStr(x) == IF x.k = "nan" THEN Str("nan", 3) ELSE x

\* s[:n]
Slice(s, n) == Str(s.id, Min(s.len, n))

TitleLimit == 100
TagLimit == 100
TagCountLimit == 10

(* ---------------------------------------------------------------------- *)
(* parse_pocket_csv                                                        *)
(* ---------------------------------------------------------------------- *)
AllCols == {"title", "url", "time_added", "tags", "status"}

\* row.get(c, default)
RowGet(cols, row, c, default) == IF c \in cols THEN row[c] ELSE default

\* int(float(time_added)) followed by datetime.fromtimestamp(timestamp).
\* A numeric cell holds tenths of a second; int() truncates toward zero.
\* "year" is a finite number whose date is outside years 1..9999
\* (fromtimestamp raises ValueError), "time_t" a finite number outside the
\* platform time_t (fromtimestamp raises OverflowError), "inf" an infinity
\* (int() raises OverflowError), a text is not a number (float() raises
\* ValueError).
TruncDiv10(v) == IF v >= 0 THEN v \div 10 ELSE -((-v) \div 10)
ConvertTimestamp(cell) ==
    CASE cell.k = "num" -> [exc |-> "none", ts |-> TruncDiv10(cell.v)]
      [] cell.k = "str" -> [exc |-> "ValueError", ts |-> 0]
      [] cell.k = "year" -> [exc |-> "ValueError", ts |-> 0]
      [] cell.k = "time_t" -> [exc |-> "OverflowError", ts |-> 0]
      [] cell.k = "inf" -> [exc |-> "OverflowError", ts |-> 0]

\* except (ValueError, TypeError, OSError)
TimestampCaught == {"ValueError", "TypeError", "OSError"}

\* tag.strip() of one comma-separated fragment; a fragment's len is its
\* length without the surrounding blanks
Strip(frag) == Str(frag.id, frag.len)

RECURSIVE NonEmptyStripped(_)
NonEmptyStripped(frags) ==
    IF frags = <<>> THEN <<>>
    ELSE IF Head(frags).len > 0
         THEN <<Strip(Head(frags))>> \o NonEmptyStripped(Tail(frags))
         ELSE NonEmptyStripped(Tail(frags))

\* The tags cell is the text of its fragments joined by ','.
ParseTags(cell) ==
    IF IsNa(cell) \/ cell.frags = <<>> THEN <<>>
    ELSE IF Len(cell.frags) = 1 /\ cell.frags[1].len = 0 THEN <<>>
    ELSE IF Len(cell.frags) >= 2 THEN NonEmptyStripped(cell.frags)
    ELSE <<Strip(cell.frags[1])>>

\* One iteration of the row loop: [skip, exc, article]
ParseRow(cols, row) ==
    LET t0 == RowGet(cols, row, "title", EmptyStr)
        title == IF IsNa(t0) \/ t0 = EmptyStr
                 THEN RowGet(cols, row, "url", EmptyStr) ELSE t0
        url == RowGet(cols, row, "url", EmptyStr)
        time_added == RowGet(cols, row, "time_added", None)
        conv == IF IsNa(time_added) THEN [exc |-> "skip", ts |-> 0]
                ELSE ConvertTimestamp(time_added)
        base == [title |-> ToStr(title),
                 url |-> ToStr(url),
                 tags |-> ParseTags(RowGet(cols, row, "tags", None)),
                 added_date |-> None,
                 time_added |-> None,
                 status |-> ToStr(RowGet(cols, row, "status", Str("unread", 6)))]
    IN IF IsNa(url) THEN [skip |-> TRUE, exc |-> "none", article |-> base]
       ELSE IF conv.exc = "none"
            THEN [skip |-> FALSE, exc |-> "none",
                  article |-> [base EXCEPT !.added_date = [k |-> "datetime", ts |-> conv.ts],
                                           !.time_added = [k |-> "decimal", v |-> conv.ts]]]
       ELSE IF conv.exc = "skip" \/ conv.exc \in TimestampCaught
            THEN [skip |-> FALSE, exc |-> "none", article |-> base]
       ELSE [skip |-> FALSE, exc |-> conv.exc, article |-> base]

RECURSIVE ParseRows(_, _, _)
ParseRows(cols, rows, articles) ==
    IF rows = <<>> THEN [exc |-> "none", articles |-> articles]
    ELSE LET r == ParseRow(cols, Head(rows))
         IN IF r.exc # "none" THEN [exc |-> r.exc, articles |-> <<>>]
            ELSE IF r.skip THEN ParseRows(cols, Tail(rows), articles)
            ELSE ParseRows(cols, Tail(rows), Append(articles, r.article))

\* pd.read_csv with the utf-8 / cp1252 / shift_jis fallback: a file is
\* missing, empty, undecodable in all three encodings, or a table.
ReadCsv(file) ==
    CASE file.kind = "missing" -> "FileNotFoundError"
      [] file.kind = "empty" -> "EmptyDataError"
      [] file.kind = "undecodable" -> "UnicodeDecodeError"
      [] file.kind = "table" -> "none"

parse_pocket_csv(file) ==
    IF ReadCsv(file) # "none" THEN [exc |-> ReadCsv(file), articles |-> <<>>]
    ELSE ParseRows(file.cols, file.rows, <<>>)

(* ---------------------------------------------------------------------- *)
(* Input files                                                             *)
(* ---------------------------------------------------------------------- *)
Frag(id, len) == [id |-> id, len |-> len]
TagsCell(frags) == [k |-> "str", frags |-> frags]

UrlA == Str("https://a.example/x", 19)
UrlB == Str("https://b.example/", 18)

\* twelve tags, the third longer than the tag limit
TwelveTags == [j \in 1..12 |-> Frag("tag", IF j = 3 THEN 150 ELSE j)]

\* an ordinary row: long title, fractional timestamp, comma-separated tags
\* with an empty fragment
RowPlain ==
    [title |-> Str("Article", 150), url |-> UrlA, time_added |-> Num(16007),
     tags |-> TagsCell(<<Frag("news", 4), Frag("", 0), Frag("tech", 4)>>),
     status |-> Str("archive", 7)]
\* empty title and status, textual timestamp, twelve tags
RowBare ==
    [title |-> NaN, url |-> UrlB, time_added |-> Str("abc", 3),
     tags |-> TagsCell(TwelveTags), status |-> NaN]
\* the same with an empty URL cell
RowNoUrl == [RowBare EXCEPT !.url = NaN]
\* infinite timestamp, blank tags cell
RowInf ==
    [title |-> Str("Article", 150), url |-> UrlA, time_added |-> [k |-> "inf"],
     tags |-> TagsCell(<<Frag("", 0)>>), status |-> Str("archive", 7)]
\* timestamp beyond the platform time_t, no tags
RowHuge ==
    [title |-> Str("Article", 150), url |-> UrlA, time_added |-> [k |-> "time_t"],
     tags |-> NaN, status |-> Str("archive", 7)]
\* date outside the year range, one tag without a comma
RowYear ==
    [title |-> Str("Orphan", 6), url |-> UrlB, time_added |-> [k |-> "year"],
     tags |-> TagsCell(<<Frag("solo", 4)>>), status |-> Str("unread", 6)]
\* negative fractional timestamp, empty URL cell, blank tags cell
RowEarly ==
    [title |-> Str("Orphan", 6), url |-> NaN, time_added |-> Num(-57),
     tags |-> TagsCell(<<Frag("", 0)>>), status |-> Str("unread", 6)]

\* rows of the files given to import_articles
RowShapes == {RowPlain, RowBare, RowNoUrl, RowInf}
\* rows of the files given to parse_pocket_csv on its own
ParserRowShapes == RowShapes \cup {RowHuge, RowYear, RowEarly}

ColSets == {AllCols, AllCols \ {"url"}}

RowSeqs(shapes, n) == UNION {[1..m -> shapes] : m \in 0..n}

Table(cols, rows) == [kind |-> "table", cols |-> cols, rows |-> rows]
Unreadable(kind) == [kind |-> kind, cols |-> {}, rows |-> <<>>]

\* pandas raises EmptyDataError for a file without a header; a table has
\* a header and any number of rows
FilesOf(shapes) ==
    {Unreadable("missing"), Unreadable("empty"), Unreadable("undecodable")}
    \cup {Table(c, r) : c \in ColSets, r \in RowSeqs(shapes, MaxRows)}

Files == FilesOf(RowShapes)
ParserFiles == FilesOf(ParserRowShapes)

(* ---------------------------------------------------------------------- *)
(* create_notion_page                                                      *)
(* ---------------------------------------------------------------------- *)
\* urlparse(url).netloc
Netloc(url) ==
    CASE url.id = "https://a.example/x" -> Str("a.example", 9)
      [] url.id = "https://b.example/" -> Str("b.example", 9)
      [] OTHER -> EmptyStr

\* str.capitalize()
Capitalize(s) ==
    CASE s.id = "archive" -> Str("Archive", s.len)
      [] s.id = "unread" -> Str("Unread", s.len)
      [] s.id = "nan" -> Str("Nan", s.len)
      [] OTHER -> s

\* datetime.isoformat()
IsoFormat(d) == [k |-> "iso8601", ts |-> d.ts]

\* Python truthiness of article.get('added_date') and article.get('tags')
HasDate(article) == article.added_date.k = "datetime"
HasTags(article) == Len(article.tags) > 0

RequiredPayload(article) ==
    [p \in {"Title", "URL", "Domain", "Source"} |->
        CASE p = "Title" -> [title |-> Slice(article.title, TitleLimit)]
          [] p = "URL" -> [url |-> article.url]
          [] p = "Domain" -> [rich_text |-> Netloc(article.url)]
          [] p = "Source" -> [select |-> Str("Pocket", 6)]]

StatusGate(article, avail) == "Status" \in avail
ReadingStatusGate(article, avail) == "ReadingStatus" \in avail
AddedDateGate(article, avail) == HasDate(article) /\ "AddedDate" \in avail
\* variant: the Tags property is written without consulting the schema
TagsGate_NoSchemaCheck(article, avail) == HasTags(article)
TagsGate(article, avail) == HasTags(article) /\ "Tags" \in avail

PayloadTags(article) ==
    [j \in 1..Min(Len(article.tags), TagCountLimit) |-> Slice(article.tags[j], TagLimit)]

\* the properties argument of notion.pages.create
BuildProperties(article, avail) ==
    RequiredPayload(article)
    @@ (IF StatusGate(article, avail)
        THEN "Status" :> [select |-> Capitalize(article.status)] ELSE <<>>)
    @@ (IF ReadingStatusGate(article, avail)
        THEN "ReadingStatus" :> [select |-> Str("midoku", 2)] ELSE <<>>)
    @@ (IF AddedDateGate(article, avail)
        THEN "AddedDate" :> [date |-> IsoFormat(article.added_date)] ELSE <<>>)
    @@ (IF TagsGate(article, avail)
        THEN "Tags" :> [multi_select |-> PayloadTags(article)] ELSE <<>>)

\* outcomes of notion.pages.create
CreateOutcomes == {"ok", "APIResponseError", "RequestTimeoutError", "Exception"}

\* counter updates of create_notion_page
ImportedAfter(count, outcome) == IF outcome = "ok" THEN count + 1 ELSE count
ErrorsAfter(count, outcome) == IF outcome = "ok" THEN count ELSE count + 1

(* ---------------------------------------------------------------------- *)
(* check_database_properties                                               *)
(* ---------------------------------------------------------------------- *)
RequiredProps == {"Title", "URL", "Domain", "Source"}
OptionalProps == {"Status", "AddedDate", "Tags", "ReadingStatus", "Rating"}

\* outcomes of notion.databases.retrieve: an exception or the property names
Retrieved(props) == [exc |-> "none", props |-> props]
RetrieveFails(exc) == [exc |-> exc, props |-> {}]
RetrieveOutcomes ==
    {RetrieveFails("APIResponseError"), RetrieveFails("KeyError"),
     Retrieved(RequiredProps \cup {"Status", "AddedDate", "Rating"}),
     Retrieved(RequiredProps \cup {"ReadingStatus", "Tags", "Notes"}),
     Retrieved((RequiredProps \ {"Domain"}) \cup {"Status", "Tags"})}

MissingProps(props) == RequiredProps \ props

\* variant: the probe does not look for the required properties
check_database_properties_IgnoreMissing(retrieved, avail) ==
    IF retrieved.exc # "none" THEN [ok |-> FALSE, avail |-> avail]
    ELSE [ok |-> TRUE, avail |-> retrieved.props]

\* [ok, avail]: the return value and self.available_properties afterwards
check_database_properties(retrieved, avail) ==
    IF retrieved.exc # "none" THEN [ok |-> FALSE, avail |-> avail]
    ELSE [ok |-> MissingProps(retrieved.props) = {}, avail |-> retrieved.props]

(* ---------------------------------------------------------------------- *)
(* import_articles: delay, result                                          *)
(* ---------------------------------------------------------------------- *)
Float(ms) == [k |-> "float", ms |-> ms]
FloatNaN == [k |-> "float_nan"]
ValueError == [k |-> "ValueError"]

\* float(s) of the API_DELAY strings; delays are kept in milliseconds
ParseFloat(s) ==
    CASE s.id = "0.3" -> Float(300)
      [] s.id = "-1" -> Float(-1000)
      [] s.id = "nan" -> FloatNaN
      [] OTHER -> ValueError

DefaultDelay == Float(300)

\* os.getenv('API_DELAY', '0.3')
GetEnv(env) == IF env = None THEN Str("0.3", 3) ELSE env

ResolveDelay(arg, env) ==
    IF arg # None THEN arg
    ELSE IF ParseFloat(GetEnv(env)) = ValueError THEN DefaultDelay
    ELSE ParseFloat(GetEnv(env))

\* time.sleep(delay): the exception it raises, or "none"
SleepExc(d) ==
    CASE d.k = "float_nan" -> "ValueError"
      [] d.k = "float" -> IF d.ms < 0 THEN "ValueError" ELSE "none"

DelayArgs == {None, Float(0)}
EnvValues == {None, Str("abc", 3), Str("-1", 2), Str("nan", 3)}

\* file_path.endswith(...)
FilePaths == {"pocket.zip", "pocket.csv", "pocket.txt"}
\* variant: every path that is not a bundle is read as a CSV file
Suffix_DefaultCsv(path) ==
    CASE path = "pocket.zip" -> "zip"
      [] OTHER -> "csv"
Suffix(path) ==
    CASE path = "pocket.zip" -> "zip"
      [] path = "pocket.csv" -> "csv"
      [] OTHER -> "other"

\* outcomes of extract_csv_from_zip: an exception or the number of CSV files
ExtractFailures == {"FileNotFoundError", "BadZipFile", "Exception"}

(* The success rate is computed in IEEE-754 double precision, so it is     *)
(* modelled bit for bit.  A natural number of more than 31 bits is a       *)
(* sequence of limbs, least significant first, without leading zero limbs. *)
LimbBits == 12
LimbBase == 4096
MantissaBits == 53

RECURSIVE Pow2(_)
Pow2(k) == IF k = 0 THEN 1 ELSE 2 * Pow2(k - 1)

RECURSIVE BitLenInt(_)
BitLenInt(v) == IF v = 0 THEN 0 ELSE 1 + BitLenInt(v \div 2)

RECURSIVE FromInt(_)
FromInt(v) == IF v = 0 THEN <<>> ELSE <<v % LimbBase>> \o FromInt(v \div LimbBase)

RECURSIVE ToInt(_)
ToInt(x) == IF x = <<>> THEN 0 ELSE Head(x) + LimbBase * ToInt(Tail(x))

RECURSIVE MulCarry(_, _, _)
MulCarry(x, c, carry) ==
    IF x = <<>> THEN FromInt(carry)
    ELSE LET t == Head(x) * c + carry
         IN <<t % LimbBase>> \o MulCarry(Tail(x), c, t \div LimbBase)

\* x * c for 0 < c < LimbBase
MulSmall(x, c) == MulCarry(x, c, 0)

RECURSIVE Inc(_)
Inc(x) ==
    IF x = <<>> THEN <<1>>
    ELSE IF Head(x) + 1 < LimbBase THEN <<Head(x) + 1>> \o Tail(x)
    ELSE <<0>> \o Inc(Tail(x))

\* x * 2^k
ShiftLeft(x, k) ==
    IF x = <<>> THEN <<>>
    ELSE [j \in 1..(k \div LimbBits) |-> 0] \o MulSmall(x, Pow2(k % LimbBits))

\* quotient and remainder of x by a small n
RECURSIVE DivSmall(_, _)
DivSmall(x, n) ==
    IF x = <<>> THEN [q |-> <<>>, r |-> 0]
    ELSE LET hi == DivSmall(Tail(x), n)
             cur == hi.r * LimbBase + Head(x)
         IN [q |-> IF hi.q = <<>> /\ cur \div n = 0 THEN <<>>
                   ELSE <<cur \div n>> \o hi.q,
             r |-> cur % n]

\* floor(x / 2^k)
ShiftRight(x, k) ==
    LET drop == k \div LimbBits
    IN IF drop >= Len(x) THEN <<>>
       ELSE DivSmall(SubSeq(x, drop + 1, Len(x)), Pow2(k % LimbBits)).q

BitLen(x) ==
    IF x = <<>> THEN 0 ELSE LimbBits * (Len(x) - 1) + BitLenInt(x[Len(x)])

IsOdd(x) == x # <<>> /\ Head(x) % 2 = 1

\* x / 2^k rounded to the nearest integer, ties to even (k >= 1)
RoundShift(x, k) ==
    LET q == ShiftRight(x, k)
        above == ShiftRight(x, k - 1)
        half == IsOdd(above)
        sticky == ShiftLeft(above, k - 1) # x
    IN IF half /\ (sticky \/ IsOdd(q)) THEN Inc(q) ELSE q

\* imported / total as a double: [m, e] stands for m * 2^-e, m of 53 bits
FloatDiv(a, n) ==
    LET e0 == (MantissaBits - 1) - BitLenInt(a) + BitLenInt(n)
        e == IF BitLen(DivSmall(ShiftLeft(FromInt(a), e0), n).q) < MantissaBits
             THEN e0 + 1 ELSE e0
        d == DivSmall(ShiftLeft(FromInt(a), e), n)
    IN [m |-> IF 2 * d.r > n \/ (2 * d.r = n /\ IsOdd(d.q)) THEN Inc(d.q) ELSE d.q,
        e |-> e]

\* the double y * 100
FloatMul100(y) ==
    LET p == MulSmall(y.m, 100)
        s == BitLen(p) - MantissaBits
    IN [m |-> RoundShift(p, s), e |-> y.e - s]

\* f"{x:.1f}" without the point: the double rounded to tenths, ties to even
FormatTenths(x) == ToInt(RoundShift(MulSmall(x.m, 10), x.e))

\* f"{(imported / total) * 100:.1f}%", in tenths of a percent
ComputeRate(imported, total) ==
    IF imported = 0 THEN 0
    ELSE FormatTenths(FloatMul100(FloatDiv(imported, total)))

\* the rates of the counts that occur within the bounds, computed once
RateCache == [a \in 0..MaxArticles, n \in 1..MaxArticles |-> ComputeRate(a, n)]

SuccessRate(imported, total) ==
    IF imported <= MaxArticles /\ total <= MaxArticles
    THEN RateCache[imported, total]
    ELSE ComputeRate(imported, total)

Failure(error) == [success |-> FALSE, error |-> error]

Summary(total, imported, errors) ==
    [success |-> TRUE, total_articles |-> total, imported |-> imported,
     errors |-> errors, success_rate |-> SuccessRate(imported, total)]

(* ---------------------------------------------------------------------- *)
(* State                                                                   *)
(* ---------------------------------------------------------------------- *)
VARIABLES
    imported_count,        \* self.imported_count
    error_count,           \* self.error_count
    available_properties,  \* self.available_properties
    pc,                    \* position of the caller in import_articles
    delay,                 \* the resolved delay of the current run
    file_path,             \* the file_path argument of the current run
    csv_left,              \* files of the bundle still to be parsed
    all_articles,          \* all_articles
    i,                     \* loop index of the publishing loop
    result,                \* the value import_articles returned
    raised,                \* the exception that left import_articles
    probe,                 \* what databases.retrieve answered in this run
    events,                \* external calls of the current run, in order
    runs,                  \* calls of import_articles so far
    parse_in,              \* parser harness: the file given to the parser
    parse_out              \* parser harness: what parse_pocket_csv did

vars == <<imported_count, error_count, available_properties, pc, delay,
          file_path, csv_left, all_articles, i, result, raised, probe,
          events, runs, parse_in, parse_out>>

harness == <<parse_in, parse_out>>
importer == <<imported_count, error_count, available_properties, pc, delay,
              file_path, csv_left, all_articles, i, result, raised, probe,
              events, runs>>

Event(op, idx, exc) == [op |-> op, idx |-> idx, exc |-> exc]
CreateEvent(idx, article, payload, outcome) ==
    [op |-> "create", idx |-> idx, exc |-> "none", article |-> article,
     payload |-> payload, ok |-> (outcome = "ok")]

\* PocketToNotionImporter.__init__
Init ==
    /\ imported_count = 0
    /\ error_count = 0
    /\ available_properties = {}
    /\ pc = "idle"
    /\ delay = None
    /\ file_path = ""
    /\ csv_left = 0
    /\ all_articles = <<>>
    /\ i = 0
    /\ result = None
    /\ raised = "none"
    /\ probe = None
    /\ events = <<>>
    /\ runs = 0
    /\ parse_in = None
    /\ parse_out = None

(* ---------------------------------------------------------------------- *)
(* import_articles                                                         *)
(* ---------------------------------------------------------------------- *)
\* return <value>
Return(value) ==
    /\ result' = value
    /\ pc' = "returned"

\* Entry of import_articles up to the schema check (lines 390-400).
ImportArticles(path, arg, env, retrieved) ==
    LET checked == check_database_properties(retrieved, available_properties)
    IN /\ pc \in {"idle", "returned", "raised"}
       /\ runs < MaxRuns
       /\ runs' = runs + 1
       /\ delay' = ResolveDelay(arg, env)
       /\ file_path' = path
       /\ probe' = retrieved
       /\ available_properties' = checked.avail
       /\ all_articles' = <<>>
       /\ csv_left' = 0
       /\ i' = 0
       /\ events' = <<>>
       /\ raised' = "none"
       /\ IF checked.ok
          THEN /\ pc' = "load"
               /\ result' = None
          ELSE Return(Failure("schema_check_failed"))
       /\ UNCHANGED <<imported_count, error_count, harness>>

\* The suffix dispatch; for a bundle, extract_csv_from_zip (lines 405-416).
\* extracted is an exception name or the number of CSV files in the bundle.
LoadZip(failure, n) ==
    /\ pc = "load"
    /\ Suffix(file_path) = "zip"
    /\ events' = Append(events, Event("extract", 0, failure))
    /\ IF failure # "none"
       THEN /\ Return(Failure("parse_failed"))
            /\ UNCHANGED csv_left
       ELSE IF n = 0
       THEN /\ Return(Failure("no_articles"))
            /\ UNCHANGED csv_left
       ELSE /\ pc' = "parse"
            /\ csv_left' = n
            /\ UNCHANGED result
    /\ UNCHANGED <<imported_count, error_count, available_properties, delay,
                   file_path, all_articles, i, raised, probe, runs, harness>>

LoadCsv ==
    /\ pc = "load"
    /\ Suffix(file_path) = "csv"
    /\ pc' = "parse"
    /\ csv_left' = 1
    /\ UNCHANGED <<imported_count, error_count, available_properties, delay,
                   file_path, all_articles, i, result, raised, probe, events,
                   runs, harness>>

LoadOther ==
    /\ pc = "load"
    /\ Suffix(file_path) = "other"
    /\ Return(Failure("unsupported_format"))
    /\ UNCHANGED <<imported_count, error_count, available_properties, delay,
                   file_path, csv_left, all_articles, i, raised, probe,
                   events, runs, harness>>

\* One call of parse_pocket_csv from import_articles (lines 409-424); after
\* the last file, the emptiness check.
ParseFile(file) ==
    LET parsed == parse_pocket_csv(file)
        articles == all_articles \o parsed.articles
    IN /\ pc = "parse"
       /\ csv_left > 0
       /\ imported_count + error_count + Len(all_articles) + Len(file.rows) <= MaxArticles
       /\ events' = Append(events, Event("parse", csv_left, parsed.exc))
       /\ IF parsed.exc # "none"
          THEN /\ Return(Failure("parse_failed"))
               /\ UNCHANGED <<all_articles, csv_left, i>>
          ELSE /\ all_articles' = articles
               /\ csv_left' = csv_left - 1
               /\ IF csv_left > 1
                  THEN UNCHANGED <<pc, result, i>>
                  ELSE IF articles = <<>>
                  THEN /\ Return(Failure("no_articles"))
                       /\ UNCHANGED i
                  ELSE /\ pc' = "create"
                       /\ i' = 1
                       /\ UNCHANGED result
       /\ UNCHANGED <<imported_count, error_count, available_properties, delay,
                      file_path, raised, probe, runs, harness>>

\* variant: the pause follows every article
PauseAfter_EveryArticle(idx, n) == idx <= n

\* if i < len(all_articles): the pause follows every article but the last
PauseAfter(idx, n) == idx < n

\* The end of one iteration of the for loop: the next article, or after the
\* last one the summary (lines 438-449).
LoopStep(imported, errors) ==
    IF i < Len(all_articles)
    THEN /\ pc' = "create"
         /\ i' = i + 1
         /\ UNCHANGED result
    ELSE /\ Return(Summary(Len(all_articles), imported, errors))
         /\ UNCHANGED i

\* One iteration of the publishing loop up to the sleep: create_notion_page
\* (lines 429-435).
CreatePage(outcome) ==
    LET article == all_articles[i]
        payload == BuildProperties(article, available_properties)
        imported == ImportedAfter(imported_count, outcome)
        errors == ErrorsAfter(error_count, outcome)
    IN /\ pc = "create"
       /\ events' = Append(events, CreateEvent(i, article, payload, outcome))
       /\ imported_count' = imported
       /\ error_count' = errors
       /\ IF PauseAfter(i, Len(all_articles))
          THEN /\ pc' = "sleep"
               /\ UNCHANGED <<result, i>>
          ELSE LoopStep(imported, errors)
       /\ UNCHANGED <<available_properties, delay, file_path, csv_left,
                      all_articles, raised, probe, runs, harness>>

\* time.sleep(delay) (line 436); an exception of time.sleep leaves
\* import_articles
Sleep ==
    /\ pc = "sleep"
    /\ events' = Append(events, Event("sleep", i, SleepExc(delay)))
    /\ IF SleepExc(delay) = "none"
       THEN /\ LoopStep(imported_count, error_count)
            /\ UNCHANGED raised
       ELSE /\ pc' = "raised"
            /\ raised' = SleepExc(delay)
            /\ UNCHANGED <<i, result>>
    /\ UNCHANGED <<imported_count, error_count, available_properties, delay,
                   file_path, csv_left, all_articles, probe, runs, harness>>

Next ==
    \/ \E path \in FilePaths, arg \in DelayArgs, env \in EnvValues,
          retrieved \in RetrieveOutcomes :
          ImportArticles(path, arg, env, retrieved)
    \/ \E failure \in ExtractFailures : LoadZip(failure, 0)
    \/ \E n \in 0..MaxFiles : LoadZip("none", n)
    \/ LoadCsv
    \/ LoadOther
    \/ \E file \in Files : ParseFile(file)
    \/ \E outcome \in CreateOutcomes : CreatePage(outcome)
    \/ Sleep

Spec == Init /\ [][Next]_vars

(* ---------------------------------------------------------------------- *)
(* parse_pocket_csv on its own                                             *)
(* ---------------------------------------------------------------------- *)
\* a file is handed to the parser
Feed(file) ==
    /\ parse_in' = file
    /\ parse_out' = None
    /\ UNCHANGED importer

\* the parser runs on it
Parse ==
    /\ parse_in # None
    /\ parse_out = None
    /\ parse_out' = parse_pocket_csv(parse_in)
    /\ UNCHANGED <<parse_in, importer>>

NextParser ==
    \/ \E file \in ParserFiles : Feed(file)
    \/ Parse

SpecParser == Init /\ [][NextParser]_vars

(* ---------------------------------------------------------------------- *)
(* Properties                                                              *)
(* ---------------------------------------------------------------------- *)
Creates == SelectSeq(events, LAMBDA e : e.op = "create")
Pauses == SelectSeq(events, LAMBDA e : e.op = "sleep" /\ e.exc = "none")
FileCalls == SelectSeq(events, LAMBDA e : e.op \in {"extract", "parse"})
Failed == SelectSeq(Creates, LAMBDA e : ~e.ok)

InRun == runs > 0
RunOver == pc \in {"returned", "raised"}
Completed == pc = "returned" /\ result.success

\* the schema probe of the current run failed
ProbeFailed == probe.exc # "none" \/ ~(RequiredProps \subseteq probe.props)

\* C1: when the schema probe of a run fails, the run returns a failure
\* result and has extracted, parsed and published nothing.
C1_ProbeFailureProcessesNothing ==
    (InRun /\ ProbeFailed) =>
        /\ pc = "returned"
        /\ result = Failure("schema_check_failed")
        /\ events = <<>>

\* a later run on an importer that has published before, stopped by a
\* database without the Domain property
C1_Witness ==
    /\ runs = 2
    /\ imported_count > 0
    /\ probe.exc = "none"
    /\ "Domain" \notin probe.props
    /\ pc = "returned"
    /\ ~result.success

\* C2: once publishing has started over n articles, the run ends with a
\* successful result after exactly one publisher call per article, in order.
C2_PublishErrorsNeverAbort ==
    (InRun /\ RunOver /\ Creates # <<>>) =>
        /\ pc = "returned"
        /\ result.success
        /\ Len(Creates) = Len(all_articles)
        /\ \A j \in 1..Len(Creates) :
              Creates[j].idx = j /\ Creates[j].article = all_articles[j]

\* C3: a completed run over n articles with k publisher failures reports
\* total_articles = n, imported = n - k, errors = k and the rate of n - k in n.
C3_SummaryCountsThisRun ==
    (InRun /\ Completed) =>
        LET n == Len(all_articles)
            k == Len(Failed)
        IN /\ Len(Creates) = n
           /\ result.total_articles = n
           /\ result.imported = n - k
           /\ result.errors = k
           /\ result.success_rate = SuccessRate(n - k, n)

\* C4: every article handed to create_notion_page has a non-empty title and
\* a non-empty url.
C4_PublishedArticlesHaveTitleAndUrl ==
    \A j \in 1..Len(Creates) :
        Creates[j].article.title.len > 0 /\ Creates[j].article.url.len > 0

\* the timestamp cell cannot be turned into a calendar date
Unparsable(cell) == cell.k \in {"str", "inf", "year", "time_t"}
HasUrl(file, row) == ~IsNa(RowGet(file.cols, row, "url", EmptyStr))
KeptRows(file) == SelectSeq(file.rows, LAMBDA row : HasUrl(file, row))

\* C5: parsing a table never raises because of a timestamp; a row with an
\* unparsable timestamp is still emitted, with added_date and time_added unset.
C5_BadTimestampLeavesDateUnset ==
    (parse_in # None /\ parse_out # None /\ parse_in.kind = "table") =>
        /\ parse_out.exc = "none"
        /\ Len(parse_out.articles) = Len(KeptRows(parse_in))
        /\ \A j \in 1..Len(parse_out.articles) :
              ("time_added" \in parse_in.cols
               /\ Unparsable(KeptRows(parse_in)[j].time_added)) =>
                  /\ parse_out.articles[j].added_date = None
                  /\ parse_out.articles[j].time_added = None

\* a file-level error of the current run: unsupported suffix, an exception
\* of the extractor or of the parser, or no article in any file
FileLevelError ==
    \/ file_path = "pocket.txt"
    \/ \E j \in 1..Len(FileCalls) : FileCalls[j].exc # "none"
    \/ all_articles = <<>>

FileErrors == {"unsupported_format", "parse_failed", "no_articles"}

\* C6: a file-level error ends the run with a failure result that carries
\* an error message; nothing is raised and no page is created.
C6_FileErrorsAbortWithFailure ==
    (InRun /\ ~ProbeFailed /\ pc \notin {"load", "parse"} /\ FileLevelError) =>
        /\ pc = "returned"
        /\ ~result.success
        /\ result.error \in FileErrors
        /\ raised = "none"
        /\ Creates = <<>>

\* the second file of a bundle fails after the first one gave articles
C6_Witness ==
    /\ pc = "returned"
    /\ ~result.success
    /\ file_path = "pocket.zip"
    /\ Len(all_articles) > 0
    /\ Len(FileCalls) = 3
    /\ FileCalls[2].exc = "none"
    /\ FileCalls[3].exc # "none"

\* the property names the schema snapshot lets through for an article
Gated(article, snapshot) ==
    RequiredProps
    \cup (IF "Status" \in snapshot THEN {"Status"} ELSE {})
    \cup (IF "ReadingStatus" \in snapshot THEN {"ReadingStatus"} ELSE {})
    \cup (IF "AddedDate" \in snapshot /\ article.added_date # None
          THEN {"AddedDate"} ELSE {})
    \cup (IF "Tags" \in snapshot /\ article.tags # <<>> THEN {"Tags"} ELSE {})

\* C7: every submitted payload has exactly the required properties and the
\* optional ones gated in by the run's schema snapshot, never Rating, at most
\* the first ten tags, and only names of the snapshot.
C7_PayloadFollowsSnapshot ==
    \A j \in 1..Len(Creates) :
        LET e == Creates[j]
            names == DOMAIN e.payload
        IN /\ names = Gated(e.article, probe.props)
           /\ "Rating" \notin names
           /\ names \subseteq probe.props
           /\ "Tags" \in names =>
                 LET sent == e.payload["Tags"].multi_select
                 IN /\ Len(sent) = Min(Len(e.article.tags), 10)
                    /\ \A t \in 1..Len(sent) :
                          /\ sent[t].id = e.article.tags[t].id
                          /\ sent[t].len <= 100

\* an article with twelve tags was sent with ten, and another article of
\* the run was sent without an AddedDate the snapshot does not have
C7_Witness ==
    \E j \in 1..Len(Creates) :
        /\ Len(Creates[j].article.tags) = 12
        /\ "Tags" \in DOMAIN Creates[j].payload
        /\ Len(Creates[j].payload["Tags"].multi_select) = 10
        /\ "Rating" \in probe.props \/ "Notes" \in probe.props
        /\ \E h \in 1..Len(Creates) :
              /\ Creates[h].article.added_date # None
              /\ "AddedDate" \notin DOMAIN Creates[h].payload

\* page creations and pauses of the current run, in order
CallsAndPauses ==
    SelectSeq(events, LAMBDA e : e.op = "create" \/ (e.op = "sleep" /\ e.exc = "none"))

\* C8: page creations and pauses alternate, starting with a creation; when
\* the run is over the last of them is a creation, so n creations come with
\* n - 1 pauses, whatever the outcomes of the creations.
C8_PauseBetweenConsecutiveCalls ==
    /\ \A j \in 1..Len(CallsAndPauses) :
          CallsAndPauses[j].op = (IF j % 2 = 1 THEN "create" ELSE "sleep")
    /\ (InRun /\ RunOver /\ Creates # <<>>) =>
          /\ CallsAndPauses[Len(CallsAndPauses)].op = "create"
          /\ Len(Pauses) = Len(Creates) - 1
    /\ (InRun /\ Completed) => Len(Pauses) = Len(all_articles) - 1

\* a completed run of three articles, failures and successes mixed, two pauses
C8_Witness ==
    /\ pc = "returned"
    /\ result.success
    /\ Len(Creates) = 3
    /\ Len(Pauses) = 2
    /\ Len(Failed) \in {1, 2}

\* C9: every successful result has imported + errors = total_articles and
\* imported <= total_articles, also on a reused importer.
C9_CountersAddUp ==
    (InRun /\ Completed) =>
        /\ result.imported + result.errors = result.total_articles
        /\ result.imported <= result.total_articles

\* C10: no exception leaves import_articles.
C10_NeverRaises == pc # "raised" /\ raised = "none"

====
